---------------------------- MODULE Spec2Model ----------------------------
(***************************************************************************)
(* BitPackedBuffer (src/unnamed/part_000, the namespaced read/write/peek   *)
(* API) and swapEndianness (src/src/utils.js).                             *)
(*                                                                         *)
(* A JavaScript number that passes through the 32-bit operators            *)
(* (<<, >>, >>>, &, |) is modelled as a Word: a sequence of WordBits bits, *)
(* most significant first.  Bytes and cursor fields are plain integers.    *)
(***************************************************************************)
EXTENDS Integers, Sequences, FiniteSets, TLC

VARIABLES data, position, currentByte, remainingBits, isBigEndian, marks,
          last, nops, log

\* nops comes first: a call always changes it.
vars == <<nops, data, position, currentByte, remainingBits, isBigEndian, marks,
          last, log>>

---------------------------------------------------------------------------
(* 32-bit words and the JavaScript bit operators                           *)

WordBits == 32
ByteBits == 8

Min(a, b) == IF a < b THEN a ELSE b
Max(a, b) == IF a > b THEN a ELSE b

\* Math.ceil(bitCount / 8)
CeilDiv8(n) == (n + ByteBits - 1) \div ByteBits

\* A non-negative integer below 2^31 as a Word.
ToWord(n) ==
  [j \in 1..WordBits |-> IF j = 1 THEN 0 ELSE (n \div 2^(WordBits - j)) % 2]

\* The Word whose four bytes are b3 (most significant) .. b0.
WordOfBytes(b3, b2, b1, b0) ==
  [j \in 1..WordBits |->
     LET byte == CASE j <= 8  -> b3
                   [] j <= 16 -> b2
                   [] j <= 24 -> b1
                   [] OTHER   -> b0
         k == (j - 1) % 8
     IN (byte \div 2^(7 - k)) % 2]

\* x << s : the shift count is taken modulo 32, bits shifted out are lost.
Shl(w, s) ==
  LET c == s % WordBits
  IN [j \in 1..WordBits |-> IF j + c <= WordBits THEN w[j + c] ELSE 0]

\* x >>> s : zero-filling right shift.
Shr(w, s) ==
  LET c == s % WordBits
  IN [j \in 1..WordBits |-> IF j - c >= 1 THEN w[j - c] ELSE 0]

\* x >> s : sign-propagating right shift.
Sar(w, s) ==
  LET c == s % WordBits
  IN [j \in 1..WordBits |-> IF j - c >= 1 THEN w[j - c] ELSE w[1]]

And(a, b) == [j \in 1..WordBits |-> IF a[j] = 1 /\ b[j] = 1 THEN 1 ELSE 0]
Or(a, b)  == [j \in 1..WordBits |-> IF a[j] = 1 \/ b[j] = 1 THEN 1 ELSE 0]

\* (1 << k) - 1 for 0 <= k <= 31
MaskWord(k) == [j \in 1..WordBits |-> IF j > WordBits - k THEN 1 ELSE 0]

RECURSIVE BitsValue(_, _)
\* The integer value of the low k bits of w (k <= 30).
BitsValue(w, k) ==
  IF k = 0 THEN 0
  ELSE w[WordBits] + 2 * BitsValue(Shr(w, 1), k - 1)

\* Mutant: the new bits replace the pending byte.
ByteOr_Overwrite(a, b) == b

\* a | b on two byte-sized integers
ByteOr(a, b) == BitsValue(Or(ToWord(a), ToWord(b)), ByteBits)

---------------------------------------------------------------------------
(* src/src/utils.js                                                        *)

Unreachable == "UNREACHABLE"

\* Mutant: the bytes are left in place.
swapEndianness_Id(value, numberOfBytes) == value

\* Mutant: three bytes are rotated by one byte instead of the outer two swapped.
swapEndianness_Rotate(value, numberOfBytes) ==
  LET ff == MaskWord(8)
  IN CASE numberOfBytes = 2 ->
            Or(Shl(And(value, ff), 8), And(Shr(value, 8), ff))
       [] numberOfBytes = 3 ->
            Or(Shl(And(value, MaskWord(16)), 8), And(Shr(value, 16), ff))
       [] numberOfBytes = 4 ->
            Or(Or(Shl(And(value, ff), 24), Shl(And(value, Shl(ff, 8)), 8)),
               Or(Shr(And(value, Shl(ff, 16)), 8), And(Shr(value, 24), ff)))
       [] OTHER -> Unreachable

swapEndianness(value, numberOfBytes) ==
  LET ff == MaskWord(8)
  IN CASE numberOfBytes = 2 ->
            Or(Shl(And(value, ff), 8), And(Shr(value, 8), ff))
       [] numberOfBytes = 3 ->
            Or(Or(Shl(And(value, ff), 16), And(value, Shl(ff, 8))),
               And(Shr(value, 16), ff))
       [] numberOfBytes = 4 ->
            Or(Or(Shl(And(value, ff), 24), Shl(And(value, Shl(ff, 8)), 8)),
               Or(Shr(And(value, Shl(ff, 16)), 8), And(Shr(value, 24), ff)))
       [] OTHER -> Unreachable

---------------------------------------------------------------------------
(* The buffer object and its private helpers                               *)

\* Mutant: peek keeps its snapshot under the default name.
kPeekMark_Default == "default"

kPeekMark == "kPeekMark"
Names == {"default", "test"}

\* new Map(): the keys present are the DOMAIN.
EmptyMap == [k \in {} |-> 0]
MapHas(m, k) == k \in DOMAIN m
MapSet(m, k, v) == [x \in DOMAIN m \cup {k} |-> IF x = k THEN v ELSE m[x]]

Ok == "ok"
ErrBitCount == "RangeError: Bit count must be between 1 and 32"
ErrUnderrun == "RangeError: Buffer underrun while reading bits"
ErrSeek == "RangeError: Cannot seek to negative position"
ErrMark == "Error: Mark not found"
This == "this"
NoVal == "none"

\* The fields of the object as one record.
Buf ==
  [data |-> data, position |-> position, currentByte |-> currentByte,
   remainingBits |-> remainingBits, isBigEndian |-> isBigEndian,
   marks |-> marks]

\* new BitPackedBuffer(contents, endian)
constructor(contents, endian) ==
  [data |-> contents, position |-> 0, currentByte |-> 0, remainingBits |-> 0,
   isBigEndian |-> (endian = "big"),
   marks |-> EmptyMap]

Zeros(n) == [i \in 1..n |-> 0]

\* Mutant: index 0 is treated as out of range.
Store_SkipFirst(d, i, x) ==
  IF i > 0 /\ i < Len(d) THEN [d EXCEPT ![i + 1] = x % 256] ELSE d

\* data[i] = x on a Uint8Array: an index outside 0..length-1 stores nothing.
Store(d, i, x) ==
  IF i >= 0 /\ i < Len(d) THEN [d EXCEPT ![i + 1] = x % 256] ELSE d

\* Mutant: the old contents are not copied into the new array.
resize_NoCopy(b, size) ==
  [b EXCEPT !.data = Zeros(Max(size, Len(b.data) * 2))]

resize(b, size) ==
  LET newLen == Max(size, Len(b.data) * 2)
  IN [b EXCEPT !.data = b.data \o Zeros(newLen - Len(b.data))]

\* Mutant: the partial byte always overwrites the byte before the cursor.
alignToByte_Last(b, lastByte) ==
  IF b.remainingBits > 0 /\ b.remainingBits < ByteBits
  THEN [b EXCEPT !.data = Store(b.data, b.position - 1, b.currentByte),
                 !.remainingBits = 0, !.currentByte = 0]
  ELSE b

alignToByte(b, lastByte) ==
  IF b.remainingBits > 0 /\ b.remainingBits < ByteBits
  THEN LET b1 == IF ~lastByte
                 THEN [b EXCEPT !.data = Store(b.data, b.position, b.currentByte),
                                !.position = b.position + 1]
                 ELSE [b EXCEPT !.data = Store(b.data, b.position - 1, b.currentByte)]
       IN [b1 EXCEPT !.remainingBits = 0, !.currentByte = 0]
  ELSE b

\* Mutant: the lower bound of the bit count is not checked.
BadBitCount_NoLower(bitCount) == bitCount > WordBits

BadBitCount(bitCount) == bitCount <= 0 \/ bitCount > WordBits

\* Mutant: the end of data is reported one byte early.
AtEnd_Early(b) == b.position + 1 >= Len(b.data)

\* this.position >= this.data.length, tested when a fresh byte is needed
AtEnd(b) == b.position >= Len(b.data)

\* Mutant: the swap is applied in big-endian mode instead.
NeedsSwap_Big(b, bitCount) == bitCount > ByteBits /\ b.isBigEndian

\* bitCount > 8 && !this.isBigEndian
NeedsSwap(b, bitCount) == bitCount > ByteBits /\ ~b.isBigEndian

RECURSIVE readLoop(_, _, _, _)
readLoop(b, bitCount, result, bitsObtained) ==
  IF bitsObtained >= bitCount
  THEN [b |-> b, val |-> result, err |-> Ok]
  ELSE IF b.remainingBits = 0 /\ AtEnd(b)
  THEN [b |-> b, val |-> NoVal, err |-> ErrUnderrun]
  ELSE
    LET b1 == IF b.remainingBits = 0
              THEN [b EXCEPT !.currentByte = b.data[b.position + 1],
                             !.position = b.position + 1,
                             !.remainingBits = ByteBits]
              ELSE b
        bitsToRead == Min(bitCount - bitsObtained, b1.remainingBits)
        shift == b1.remainingBits - bitsToRead
        bits == (b1.currentByte \div 2^shift) % 2^bitsToRead
    IN readLoop([b1 EXCEPT !.remainingBits = b1.remainingBits - bitsToRead],
                bitCount,
                Or(Shl(result, bitsToRead), ToWord(bits)),
                bitsObtained + bitsToRead)

\* Mutant: a read that underruns gives back what it had consumed.
readBits_Rollback(b, bitCount) ==
  IF BadBitCount(bitCount)
  THEN [b |-> b, val |-> NoVal, err |-> ErrBitCount]
  ELSE LET r == readLoop(b, bitCount, ToWord(0), 0)
       IN IF r.err # Ok THEN [r EXCEPT !.b = b]
          ELSE IF NeedsSwap(b, bitCount)
          THEN [r EXCEPT !.val = swapEndianness(r.val, CeilDiv8(bitCount))]
          ELSE r

readBits(b, bitCount) ==
  IF BadBitCount(bitCount)
  THEN [b |-> b, val |-> NoVal, err |-> ErrBitCount]
  ELSE LET r == readLoop(b, bitCount, ToWord(0), 0)
       IN IF r.err # Ok THEN r
          ELSE IF NeedsSwap(b, bitCount)
          THEN [r EXCEPT !.val = swapEndianness(r.val, CeilDiv8(bitCount))]
          ELSE r

RECURSIVE writeLoop(_, _, _)
writeLoop(b, value, bitCount) ==
  IF bitCount <= 0 THEN b
  ELSE
    LET b1 == IF b.remainingBits = 0
              THEN [(IF AtEnd(b) THEN resize(b, b.position + 1) ELSE b)
                      EXCEPT !.currentByte = 0, !.remainingBits = ByteBits]
              ELSE b
        bitsToWrite == Min(bitCount, b1.remainingBits)
        shift == bitCount - bitsToWrite
        bits == BitsValue(And(Sar(value, shift), MaskWord(bitsToWrite)), bitsToWrite)
        cur == ByteOr(b1.currentByte, bits * 2^(b1.remainingBits - bitsToWrite))
        b2 == [b1 EXCEPT !.currentByte = cur,
                         !.remainingBits = b1.remainingBits - bitsToWrite]
        b3 == IF b2.remainingBits = 0
              THEN [b2 EXCEPT !.data = Store(b2.data, b2.position, cur),
                              !.position = b2.position + 1]
              ELSE b2
    IN writeLoop(b3, value, bitCount - bitsToWrite)

\* Mutant: every call ends by committing its partial byte.
writeBits_Flush(b, value, bitCount) ==
  IF BadBitCount(bitCount)
  THEN [b |-> b, val |-> NoVal, err |-> ErrBitCount]
  ELSE LET v == IF NeedsSwap(b, bitCount)
                THEN swapEndianness(value, CeilDiv8(bitCount))
                ELSE value
       IN [b |-> alignToByte(writeLoop(b, v, bitCount), FALSE),
           val |-> This, err |-> Ok]

writeBits(b, value, bitCount) ==
  IF BadBitCount(bitCount)
  THEN [b |-> b, val |-> NoVal, err |-> ErrBitCount]
  ELSE LET v == IF NeedsSwap(b, bitCount)
                THEN swapEndianness(value, CeilDiv8(bitCount))
                ELSE value
       IN [b |-> writeLoop(b, v, bitCount), val |-> This, err |-> Ok]


---------------------------------------------------------------------------
(* The public interface: read, write, mark/reset, peek, seek, ...          *)

read_bits(b, count) == readBits(b, count)

RECURSIVE readBytesLoop(_, _, _)
readBytesLoop(b, count, result) ==
  IF count <= 0 THEN [b |-> b, val |-> result, err |-> Ok]
  ELSE LET r == readBits(b, ByteBits)
       IN IF r.err # Ok
          THEN [b |-> r.b, val |-> NoVal, err |-> r.err]
          ELSE readBytesLoop(r.b, count - 1,
                             Append(result, BitsValue(r.val, ByteBits)))

read_bytes(b, count) == readBytesLoop(alignToByte(b, FALSE), count, <<>>)

read_uint(b, bitCount) == readBits(b, bitCount)

write_bits(b, value, count) == writeBits(b, value, count)

RECURSIVE writeBytesLoop(_, _)
writeBytesLoop(b, bytes) ==
  IF bytes = <<>> THEN b
  ELSE writeBytesLoop(writeBits(b, ToWord(Head(bytes)), ByteBits).b, Tail(bytes))

write_bytes(b, bytes) ==
  [b |-> writeBytesLoop(alignToByte(b, FALSE), bytes), val |-> This, err |-> Ok]

write_uint(b, value, bitCount) == writeBits(b, value, bitCount)

\* The snapshot mark() stores.
Snapshot(b) ==
  [position |-> b.position, remainingBits |-> b.remainingBits,
   currentByte |-> b.currentByte]

mark(b, name) ==
  [b |-> [b EXCEPT !.marks = MapSet(b.marks, name, Snapshot(b))],
   val |-> This, err |-> Ok]

\* Mutant: only the byte position is restored.
reset_PositionOnly(b, name) ==
  IF ~MapHas(b.marks, name)
  THEN [b |-> b, val |-> NoVal, err |-> ErrMark]
  ELSE [b |-> [alignToByte(b, FALSE) EXCEPT !.position = b.marks[name].position],
        val |-> This, err |-> Ok]

\* Mutant: the partial byte is committed before the mark is looked up.
reset_AlignFirst(b, name) ==
  LET b1 == alignToByte(b, FALSE)
  IN IF ~MapHas(b.marks, name)
     THEN [b |-> b1, val |-> NoVal, err |-> ErrMark]
     ELSE [b |-> [b1 EXCEPT !.position = b.marks[name].position,
                            !.remainingBits = b.marks[name].remainingBits,
                            !.currentByte = b.marks[name].currentByte],
           val |-> This, err |-> Ok]

\* Mutant: a snapshot is removed once it has been restored.
reset_Consume(b, name) ==
  IF ~MapHas(b.marks, name)
  THEN [b |-> b, val |-> NoVal, err |-> ErrMark]
  ELSE [b |-> [alignToByte(b, FALSE)
                 EXCEPT !.position = b.marks[name].position,
                        !.remainingBits = b.marks[name].remainingBits,
                        !.currentByte = b.marks[name].currentByte,
                        !.marks = [x \in DOMAIN b.marks \ {name} |-> b.marks[x]]],
        val |-> This, err |-> Ok]

reset(b, name) ==
  IF ~MapHas(b.marks, name)
  THEN [b |-> b, val |-> NoVal, err |-> ErrMark]
  ELSE LET m == b.marks[name]
           b1 == alignToByte(b, FALSE)
       IN [b |-> [b1 EXCEPT !.position = m.position,
                               !.remainingBits = m.remainingBits,
                               !.currentByte = m.currentByte],
              val |-> This, err |-> Ok]

\* peek.<name>: mark(kPeekMark); value = fn(...); reset(kPeekMark).
\* r is what fn returns on the buffer as marked; a throw in fn skips reset.
peekAfter(r) ==
  IF r.err # Ok THEN r
  ELSE LET s == reset(r.b, kPeekMark)
       IN [b |-> s.b, val |-> IF s.err = Ok THEN r.val ELSE NoVal, err |-> s.err]

peek_bits(b, count) == peekAfter(read_bits(mark(b, kPeekMark).b, count))
peek_bytes(b, count) == peekAfter(read_bytes(mark(b, kPeekMark).b, count))
peek_uint(b, bitCount) == peekAfter(read_uint(mark(b, kPeekMark).b, bitCount))

\* Mutant: the partial byte is committed before the target is checked.
seek_AlignFirst(b, pos) ==
  LET b1 == alignToByte(b, FALSE)
  IN IF pos < 0 THEN [b |-> b1, val |-> NoVal, err |-> ErrSeek]
     ELSE [b |-> [(IF pos > Len(b1.data) THEN resize(b1, pos) ELSE b1)
                    EXCEPT !.position = pos, !.currentByte = 0,
                           !.remainingBits = 0],
           val |-> This, err |-> Ok]

\* Mutant: the cursor is left as if a whole byte were pending.
seek_FullByte(b, pos) ==
  IF pos < 0 THEN [b |-> b, val |-> NoVal, err |-> ErrSeek]
  ELSE [b |-> [alignToByte(IF pos > Len(b.data) THEN resize(b, pos) ELSE b, FALSE)
                 EXCEPT !.position = pos, !.currentByte = 0,
                        !.remainingBits = ByteBits],
        val |-> This, err |-> Ok]

seek(b, pos) ==
  IF pos < 0 THEN [b |-> b, val |-> NoVal, err |-> ErrSeek]
  ELSE LET b1 == IF pos > Len(b.data) THEN resize(b, pos) ELSE b
           b2 == alignToByte(b1, FALSE)
       IN [b |-> [b2 EXCEPT !.position = pos, !.currentByte = 0,
                            !.remainingBits = 0],
           val |-> This, err |-> Ok]

\* Mutant: the count is taken as an absolute position.
skip_Absolute(b, bytes) == seek(b, bytes)

skip(b, bytes) == seek(b, b.position + bytes)

\* Mutant: the marks survive.
clear_KeepMarks(b) ==
  [b |-> [b EXCEPT !.data = <<>>, !.position = 0, !.currentByte = 0,
                   !.remainingBits = 0],
   val |-> This, err |-> Ok]

clear(b) ==
  [b |-> [b EXCEPT !.data = <<>>, !.position = 0, !.currentByte = 0,
                   !.remainingBits = 0,
                   !.marks = EmptyMap],
   val |-> This, err |-> Ok]

\* Mutant: complete only once position is past the end.
isComplete_Past(b) ==
  [b |-> b, val |-> (b.remainingBits = 0 /\ b.position > Len(b.data)),
   err |-> Ok]

isComplete(b) ==
  [b |-> b, val |-> (b.remainingBits = 0 /\ b.position >= Len(b.data)),
   err |-> Ok]

getBuffer(b) ==
  LET b1 == alignToByte(b, TRUE)
  IN [b |-> b1, val |-> SubSeq(b1.data, 1, Min(b1.position, Len(b1.data))),
      err |-> Ok]

\* buffer.isBigEndian = flag (the field is public; the tests assign it)
setBigEndian(b, flag) ==
  [b |-> [b EXCEPT !.isBigEndian = flag], val |-> This, err |-> Ok]

---------------------------------------------------------------------------
(* One call of the interface as a step: the object takes the state the     *)
(* call leaves (also when it throws), `last` is the call and its outcome.  *)

Call(op, args, r) ==
  /\ data' = r.b.data
  /\ position' = r.b.position
  /\ currentByte' = r.b.currentByte
  /\ remainingBits' = r.b.remainingBits
  /\ isBigEndian' = r.b.isBigEndian
  /\ marks' = r.b.marks
  /\ last' = [op |-> op, args |-> args, val |-> r.val, err |-> r.err]

Call_read_bits(n) == Call("read.bits", <<n>>, read_bits(Buf, n))
Call_read_bytes(k) == Call("read.bytes", <<k>>, read_bytes(Buf, k))
Call_read_uint(n) == Call("read.uint", <<n>>, read_uint(Buf, n))
Call_write_bits(v, n) == Call("write.bits", <<v, n>>, write_bits(Buf, v, n))
Call_write_bytes(bs) == Call("write.bytes", <<bs>>, write_bytes(Buf, bs))
Call_write_uint(v, n) == Call("write.uint", <<v, n>>, write_uint(Buf, v, n))
Call_peek_bits(n) == Call("peek.bits", <<n>>, peek_bits(Buf, n))
Call_peek_bytes(k) == Call("peek.bytes", <<k>>, peek_bytes(Buf, k))
Call_peek_uint(n) == Call("peek.uint", <<n>>, peek_uint(Buf, n))
Call_alignToByte(lastByte) ==
  Call("alignToByte", <<lastByte>>,
       [b |-> alignToByte(Buf, lastByte), val |-> This, err |-> Ok])
Call_mark(name) == Call("mark", <<name>>, mark(Buf, name))
Call_reset(name) == Call("reset", <<name>>, reset(Buf, name))
Call_seek(pos) == Call("seek", <<pos>>, seek(Buf, pos))
Call_skip(n) == Call("skip", <<n>>, skip(Buf, n))
Call_clear == Call("clear", <<>>, clear(Buf))
Call_isComplete == Call("isComplete", <<>>, isComplete(Buf))
Call_getBuffer == Call("getBuffer", <<>>, getBuffer(Buf))
Call_setBigEndian(flag) == Call("isBigEndian=", <<flag>>, setBigEndian(Buf, flag))

\* The state right after new BitPackedBuffer(contents, endian).
Construct(contents, endian) ==
  LET b == constructor(contents, endian)
      c == [op |-> "new", args |-> <<contents, endian>>, val |-> This, err |-> Ok]
  IN /\ data = b.data
     /\ position = b.position
     /\ currentByte = b.currentByte
     /\ remainingBits = b.remainingBits
     /\ isBigEndian = b.isBigEndian
     /\ marks = b.marks
     /\ last = c
     /\ nops = 0
     /\ log = <<[call |-> c, post |-> b]>>

Endians == {"big", "little"}

---------------------------------------------------------------------------
(* Spec: any sequence of at most MaxOps calls on a freshly constructed     *)
(* buffer.  Only the latest call is remembered (log stays as constructed). *)

MaxOps == 3

InitContents == {<<>>, <<170>>, <<171, 205, 239>>}
BitCounts == {-1, 0, 3, 12, 33}
ByteCounts == {1, 2}
WriteValues == {WordOfBytes(0, 0, 10, 181)}
WriteBytes == {<<171>>, <<1, 2>>}
SeekTargets == {-1, 0, 1, 3}
SkipCounts == {-1, 1}

Tick == nops' = nops + 1 /\ log' = log

Api_read_bits == nops < MaxOps /\ \E n \in BitCounts : Call_read_bits(n) /\ Tick
Api_read_bytes == nops < MaxOps /\ \E k \in ByteCounts : Call_read_bytes(k) /\ Tick
Api_write_bits ==
  nops < MaxOps /\ \E n \in BitCounts, v \in WriteValues : Call_write_bits(v, n) /\ Tick
Api_write_bytes == nops < MaxOps /\ \E bs \in WriteBytes : Call_write_bytes(bs) /\ Tick
Api_peek_bits == nops < MaxOps /\ \E n \in BitCounts : Call_peek_bits(n) /\ Tick
Api_peek_bytes == nops < MaxOps /\ \E k \in ByteCounts : Call_peek_bytes(k) /\ Tick
Api_alignToByte == nops < MaxOps /\ \E lb \in BOOLEAN : Call_alignToByte(lb) /\ Tick
Api_mark == nops < MaxOps /\ \E name \in Names : Call_mark(name) /\ Tick
Api_reset == nops < MaxOps /\ \E name \in Names : Call_reset(name) /\ Tick
Api_seek == nops < MaxOps /\ \E pos \in SeekTargets : Call_seek(pos) /\ Tick
Api_skip == nops < MaxOps /\ \E n \in SkipCounts : Call_skip(n) /\ Tick
Api_clear == nops < MaxOps /\ Call_clear /\ Tick
Api_isComplete == nops < MaxOps /\ Call_isComplete /\ Tick
Api_getBuffer == nops < MaxOps /\ Call_getBuffer /\ Tick
Api_setBigEndian == nops < MaxOps /\ \E f \in BOOLEAN : Call_setBigEndian(f) /\ Tick

Init == \E contents \in InitContents, endian \in Endians : Construct(contents, endian)

Next ==
  \/ Api_read_bits
  \/ Api_read_bytes
  \/ Api_write_bits
  \/ Api_write_bytes
  \/ Api_peek_bits
  \/ Api_peek_bytes
  \/ Api_alignToByte
  \/ Api_mark
  \/ Api_reset
  \/ Api_seek
  \/ Api_skip
  \/ Api_clear
  \/ Api_isComplete
  \/ Api_getBuffer
  \/ Api_setBigEndian

Spec == Init /\ [][Next]_vars

\* A step that is one call of the interface (never a stuttering step).
IsCall == nops' = nops + 1
CallOf(ops) == IsCall /\ last'.op \in ops

\* C2: a peek.bits(n) or peek.bytes(k) that succeeds leaves position,
\* pendingBits, pendingByte and every byte of data unchanged.
C2_PeekNonInterference ==
  [][(CallOf({"peek.bits", "peek.bytes"}) /\ last'.err = Ok)
       => UNCHANGED <<data, position, remainingBits, currentByte>>]_vars

\* C6: read.bits(n) and write.bits(v, n) with n <= 0 or n > 32 fail with the
\* bit-count error and leave data, position, pendingBits, pendingByte and
\* marks unchanged.
C6_BitCountValidation ==
  [][(CallOf({"read.bits", "write.bits"})
        /\ LET n == last'.args[Len(last'.args)] IN n <= 0 \/ n > 32)
       => (/\ last'.err = ErrBitCount
           /\ UNCHANGED <<data, position, remainingBits, currentByte, marks>>)]_vars

\* A rejected write.bits issued while a byte is partially consumed.
C6_Witness ==
  /\ last.op = "write.bits" /\ last.args[2] = 0 /\ last.err = ErrBitCount
  /\ remainingBits \in 1..7

\* C7: read.bits(n) with a valid n fails with buffer underrun exactly when
\* pendingBits + 8 * (length(data) - position) < n, and succeeds otherwise.
C7_Underrun ==
  [][(CallOf({"read.bits"}) /\ last'.args[1] \in 1..32)
       => (/\ last'.err \in {Ok, ErrUnderrun}
           /\ (last'.err = ErrUnderrun)
                <=> (remainingBits + 8 * (Len(data) - position) < last'.args[1]))]_vars

\* An underrun after the available bits of the last byte were taken.
C7_Witness ==
  /\ last.op = "read.bits" /\ last.args[1] = 12 /\ last.err = ErrUnderrun
  /\ Len(data) = 3 /\ position = 3 /\ nops = 3

---------------------------------------------------------------------------
(* Scripted runs: every call and the state it leaves are appended to log,  *)
(* log[1] being the constructor; call number i is log[i + 1].              *)

Rec == nops' = nops + 1 /\ log' = Append(log, [call |-> last', post |-> Buf'])

\* Bit patterns cut to n bits: all ones, only the top bit, a few mixed ones.
Patterns ==
  {WordOfBytes(255, 255, 255, 255), WordOfBytes(18, 52, 86, 120),
   WordOfBytes(165, 90, 195, 15), WordOfBytes(0, 0, 15, 240), ToWord(1)}
ValuesOfWidth(n) ==
  {And(w, MaskWord(n)) : w \in Patterns} \cup {Shl(ToWord(1), n - 1)}

---------------------------------------------------------------------------
(* SpecRT: on an empty buffer, write.bits(v, n); seek(0); read.bits(n).    *)

InitRT == \E endian \in Endians : Construct(<<>>, endian)

RT_write ==
  nops = 0 /\ \E n \in 1..WordBits : \E v \in ValuesOfWidth(n) :
                 Call_write_bits(v, n) /\ Rec
RT_seek == nops = 1 /\ Call_seek(0) /\ Rec
RT_read == nops = 2 /\ Call_read_bits(log[2].call.args[2]) /\ Rec

NextRT == RT_write \/ RT_seek \/ RT_read

SpecRT == InitRT /\ [][NextRT]_vars

\* C1: for both byte orders, every n in 1..32 and every v < 2^n, on an empty
\* buffer write.bits(v, n); seek(0); read.bits(n) returns exactly v.
C1_RoundTripBits ==
  nops = 3 => (last.err = Ok /\ last.val = log[2].call.args[1])

---------------------------------------------------------------------------
(* SpecMixed: on an empty buffer, one or more bit fields whose widths do   *)
(* not add up to whole bytes, then write.bytes(B); seek(0); the same bit   *)
(* widths read back, then read.bytes(len(B)).                              *)

MaxFields == 2

FieldWidths == {3, 4, 5}
FieldValues(n) == {And(w, MaskWord(n)) : w \in {ToWord(5), ToWord(10), ToWord(15)}}
MixedBytes == {<<171>>, <<72, 105>>}

\* The calls of one operation, in the order they were made.
CallsOf(op) == SelectSeq(log, LAMBDA e : e.call.op = op)

RECURSIVE SumWidths(_)
SumWidths(ws) == IF ws = <<>> THEN 0 ELSE Head(ws).call.args[2] + SumWidths(Tail(ws))

InitMixed == \E endian \in Endians : Construct(<<>>, endian)

MX_write_bits ==
  /\ last.op \in {"new", "write.bits"}
  /\ Len(CallsOf("write.bits")) < MaxFields
  /\ \E n \in FieldWidths : \E v \in FieldValues(n) : Call_write_bits(v, n) /\ Rec
MX_write_bytes ==
  /\ last.op = "write.bits"
  /\ SumWidths(CallsOf("write.bits")) % ByteBits # 0
  /\ \E bs \in MixedBytes : Call_write_bytes(bs) /\ Rec
MX_seek == last.op = "write.bytes" /\ Call_seek(0) /\ Rec
MX_read_bits ==
  /\ last.op \in {"seek", "read.bits"}
  /\ LET i == Len(CallsOf("read.bits")) + 1
         ws == CallsOf("write.bits")
     IN i <= Len(ws) /\ Call_read_bits(ws[i].call.args[2]) /\ Rec
MX_read_bytes ==
  /\ last.op = "read.bits"
  /\ Len(CallsOf("read.bits")) = Len(CallsOf("write.bits"))
  /\ Call_read_bytes(Len(CallsOf("write.bytes")[1].call.args[1])) /\ Rec

NextMixed == MX_write_bits \/ MX_write_bytes \/ MX_seek \/ MX_read_bits \/ MX_read_bytes

SpecMixed == InitMixed /\ [][NextMixed]_vars

\* C3: after the bit fields and the bytes B are written and the cursor is
\* back at 0, reading the same widths returns the written values and
\* read.bytes(len(B)), called with 0 < pendingBits < 8, returns exactly B.
C3_MixedRoundTrip ==
  last.op = "read.bytes" =>
    LET ws == CallsOf("write.bits")
        rs == CallsOf("read.bits")
    IN /\ \A i \in 1..Len(ws) :
            rs[i].call.err = Ok /\ rs[i].call.val = ws[i].call.args[1]
       /\ last.err = Ok
       /\ last.val = CallsOf("write.bytes")[1].call.args[1]

---------------------------------------------------------------------------
(* SpecEndian: on an empty buffer write.uint(v, 16), then seek(0),         *)
(* peek.uint(16) and read.uint(16), the byte-order flag being reassigned   *)
(* at most MaxFlips times in between.                                      *)

MaxFlips == 2

Values16 == {4660, 65280, 85, 32769, 65535}

InitEndian == \E endian \in Endians : Construct(<<>>, endian)

EN_write == last.op = "new" /\ \E v \in Values16 : Call_write_uint(ToWord(v), 16) /\ Rec
EN_flip ==
  /\ last.op \in {"write.uint", "seek", "peek.uint"}
  /\ Len(CallsOf("isBigEndian=")) < MaxFlips
  /\ \E f \in BOOLEAN : Call_setBigEndian(f) /\ Rec
EN_seek ==
  /\ last.op \in {"write.uint", "isBigEndian="}
  /\ CallsOf("seek") = <<>>
  /\ Call_seek(0) /\ Rec
EN_peek ==
  /\ last.op \in {"seek", "isBigEndian="}
  /\ CallsOf("seek") # <<>> /\ CallsOf("peek.uint") = <<>>
  /\ Call_peek_uint(16) /\ Rec
EN_read ==
  /\ last.op \in {"seek", "isBigEndian=", "peek.uint"}
  /\ CallsOf("seek") # <<>>
  /\ Call_read_uint(16) /\ Rec

NextEndian == EN_write \/ EN_flip \/ EN_seek \/ EN_peek \/ EN_read

SpecEndian == InitEndian /\ [][NextEndian]_vars

\* The 16-bit number v with its two bytes exchanged.
ByteSwapped16(v) == (v % 256) * 256 + (v \div 256)

\* C4: a 16-bit value written with write.uint(v, 16) reads back as v in the
\* byte order it was written in and as v with its two bytes swapped in the
\* other byte order; assigning the flag does not change the stored bytes.
C4_EndianRoundTrip ==
  \A i \in 3..Len(log) :
    LET c == log[i].call
        v == BitsValue(log[2].call.args[1], 16)
        wroteBig == log[1].post.isBigEndian
        readsBig == log[i - 1].post.isBigEndian
    IN /\ c.op \in {"read.uint", "peek.uint"} =>
            /\ c.err = Ok
            /\ c.val = ToWord(IF readsBig = wroteBig THEN v ELSE ByteSwapped16(v))
       /\ c.op = "isBigEndian=" => log[i].post.data = log[i - 1].post.data

\* Written little-endian, the flag set to big, then read: the swapped value.
C4_Witness ==
  /\ last.op = "read.uint" /\ last.err = Ok
  /\ ~log[1].post.isBigEndian /\ isBigEndian
  /\ log[2].call.args[1] = ToWord(4660) /\ last.val = ToWord(13330)

---------------------------------------------------------------------------
(* SpecMark: up to MarkOps calls, all recorded, on a three-byte buffer:    *)
(* marks and resets under two names with cursor movement, reads, writes,   *)
(* peeks and clear in between.                                             *)

MarkOps == 4

InitMark == Construct(<<171, 205, 239>>, "big")

MK_read_bits == nops < MarkOps /\ \E n \in {3, 12} : Call_read_bits(n) /\ Rec
MK_write_bits == nops < MarkOps /\ Call_write_bits(ToWord(5), 3) /\ Rec
MK_read_bytes == nops < MarkOps /\ Call_read_bytes(1) /\ Rec
MK_write_bytes == nops < MarkOps /\ Call_write_bytes(<<18>>) /\ Rec
MK_peek_bits == nops < MarkOps /\ Call_peek_bits(3) /\ Rec
MK_seek == nops < MarkOps /\ Call_seek(0) /\ Rec
MK_skip == nops < MarkOps /\ Call_skip(1) /\ Rec
MK_alignToByte == nops < MarkOps /\ Call_alignToByte(FALSE) /\ Rec
MK_mark == nops < MarkOps /\ \E name \in Names : Call_mark(name) /\ Rec
MK_reset == nops < MarkOps /\ \E name \in Names : Call_reset(name) /\ Rec
MK_clear == nops < MarkOps /\ Call_clear /\ Rec

NextMark ==
  \/ MK_read_bits \/ MK_write_bits \/ MK_read_bytes \/ MK_write_bytes
  \/ MK_peek_bits \/ MK_seek \/ MK_skip \/ MK_alignToByte
  \/ MK_mark \/ MK_reset \/ MK_clear

SpecMark == InitMark /\ [][NextMark]_vars

\* Call i is mark(name), and no later call before j clears or re-marks name.
MarkStands(i, j, name) ==
  /\ log[i].call.op = "mark" /\ log[i].call.args[1] = name
  /\ \A k \in (i + 1)..(j - 1) :
       /\ log[k].call.op # "clear"
       /\ ~(log[k].call.op = "mark" /\ log[k].call.args[1] = name)

\* C5: mark(name), then any calls that neither clear the buffer nor re-mark
\* name, then reset(name): position, pendingBits and pendingByte are exactly
\* what they were when mark(name) was called.
C5_MarkResetExact ==
  \A i \in 2..Len(log) : \A j \in (i + 1)..Len(log) : \A name \in Names :
    (MarkStands(i, j, name)
       /\ log[j].call.op = "reset" /\ log[j].call.args[1] = name)
    => (/\ log[j].call.err = Ok
        /\ Snapshot(log[j].post) = Snapshot(log[i - 1].post))

\* A mark taken with a byte partially consumed, restored after the cursor
\* had moved on.
C5_Witness ==
  \E i \in 2..Len(log) :
    /\ log[i].call.op = "mark" /\ log[i - 1].post.remainingBits = 5
    /\ i + 2 = Len(log) /\ MarkStands(i, i + 2, log[i].call.args[1])
    /\ log[i + 1].post.position # log[i].post.position
    /\ last.op = "reset" /\ last.args[1] = log[i].call.args[1]
    /\ remainingBits = 5 /\ currentByte = 171

---------------------------------------------------------------------------
(* SpecComplete: a buffer of 1..MaxBytes bytes consumed with read.bits,    *)
(* isComplete() being asked before and after every read.                   *)

MaxBytes == 3

SomeBytes == <<171, 0, 239, 18, 255, 1>>

InitComplete ==
  \E n \in 1..MaxBytes, endian \in Endians : Construct(SubSeq(SomeBytes, 1, n), endian)

CP_read_bits ==
  /\ Len(CallsOf("read.bits")) <= Len(data)
  /\ \E n \in {3, 8} : Call_read_bits(n) /\ Rec
CP_isComplete == last.op # "isComplete" /\ Call_isComplete /\ Rec

NextComplete == CP_read_bits \/ CP_isComplete

SpecComplete == InitComplete /\ [][NextComplete]_vars

\* Every read so far was a read.bits(8).
OnlyByteReads ==
  LET rs == CallsOf("read.bits") IN \A i \in 1..Len(rs) : rs[i].call.args[1] = 8

\* C8: isComplete() is true iff pendingBits == 0 and position has reached
\* length(data); on an N-byte buffer consumed from position 0 with
\* read.bits(8) only, it is false before the first read and after each of
\* the first N - 1 reads and true after the N-th.
C8_Completion ==
  last.op = "isComplete" =>
    /\ last.val = (remainingBits = 0 /\ position >= Len(data))
    /\ OnlyByteReads =>
         last.val = (Len(SelectSeq(CallsOf("read.bits"), LAMBDA e : e.call.err = Ok))
                       = Len(log[1].post.data))

\* isComplete() answering true right after the last of three 8-bit reads.
C8_Witness ==
  /\ last.op = "isComplete" /\ last.val = TRUE /\ OnlyByteReads
  /\ Len(data) = 3 /\ Len(CallsOf("read.bits")) = 3
  /\ Len(CallsOf("isComplete")) = 4

---------------------------------------------------------------------------
(* SpecAlign: up to MaxSetup calls that move the cursor (seek, read.bits,  *)
(* alignToByte), then one write.bits of 1..7 bits, alignToByte being       *)
(* called at any point, in either mode.                                    *)

MaxSetup == 2

AlignContents == {<<>>, <<170>>, <<171, 205>>}

InitAlign == \E contents \in AlignContents, endian \in Endians : Construct(contents, endian)

InSetup == CallsOf("write.bits") = <<>> /\ nops < MaxSetup

AL_seek == InSetup /\ \E pos \in 0..3 : Call_seek(pos) /\ Rec
AL_read_bits == InSetup /\ \E n \in {3, 8} : Call_read_bits(n) /\ Rec
AL_write_bits ==
  /\ CallsOf("write.bits") = <<>>
  /\ \E k \in 1..(ByteBits - 1) : \E v \in FieldValues(k) : Call_write_bits(v, k) /\ Rec
AL_alignToByte ==
  /\ last.op # "alignToByte"
  /\ CallsOf("write.bits") = <<>> => nops < MaxSetup
  /\ \E lb \in BOOLEAN : Call_alignToByte(lb) /\ Rec

NextAlign == AL_seek \/ AL_read_bits \/ AL_write_bits \/ AL_alignToByte

SpecAlign == InitAlign /\ [][NextAlign]_vars

\* d with index p (from 0) holding x, grown with zero bytes where needed.
WithByteAt(d, p, x, newLen) ==
  [i \in 1..newLen |-> IF i = p + 1 THEN x ELSE IF i <= Len(d) THEN d[i] ELSE 0]

\* C9: from a byte-aligned cursor at position p, write.bits(v, k) with
\* 1 <= k <= 7 followed by alignToByte() stores one byte at index p, the k
\* written bits on top and zeros below, changes no other byte, and ends with
\* position == p + 1 and pendingBits == 0; alignToByte, in either mode and
\* from any state, ends with pendingBits == 0.
C9_AlignmentSafety ==
  /\ last.op = "alignToByte" => remainingBits = 0
  /\ \A i \in 3..Len(log) :
       LET pre == log[i - 2].post
           w == log[i - 1].call
           a == log[i].call
           post == log[i].post
       IN (w.op = "write.bits" /\ pre.remainingBits = 0
             /\ a.op = "alignToByte" /\ a.args[1] = FALSE)
          => LET k == w.args[2]
                 x == BitsValue(w.args[1], k) * 2^(ByteBits - k)
             IN /\ post.position = pre.position + 1
                /\ post.remainingBits = 0
                /\ Len(post.data) >= Max(Len(pre.data), pre.position + 1)
                /\ post.data = WithByteAt(pre.data, pre.position, x, Len(post.data))

\* Three bits written at position 2, one past the end of a one-byte buffer,
\* then committed by alignToByte().
C9_Witness ==
  /\ Len(log) = 5 /\ log[3].post.position = 2 /\ Len(log[3].post.data) = 1
  /\ log[4].call.op = "write.bits" /\ log[4].call.args[2] = 3
  /\ last.op = "alignToByte" /\ last.args[1] = FALSE
  /\ position = 3 /\ data[3] = 160

---------------------------------------------------------------------------
(* SpecRead: a buffer with given contents, optionally seek(p), then one    *)
(* read.bits(n) for every n in 1..32.                                      *)

ReadContents ==
  {<<255, 0>>, <<18, 52, 86, 120, 154>>, <<165, 90, 195, 15, 240>>,
   <<128, 0, 0, 1, 255>>}

InitRead == \E contents \in ReadContents, endian \in Endians : Construct(contents, endian)

RD_seek == last.op = "new" /\ \E pos \in 0..1 : Call_seek(pos) /\ Rec
RD_read_bits ==
  /\ last.op \in {"new", "seek"}
  /\ \E n \in 1..WordBits : Call_read_bits(n) /\ Rec

NextRead == RD_seek \/ RD_read_bits

SpecRead == InitRead /\ [][NextRead]_vars

\* Bit i (from 0, most significant bit of a byte first) of d from byte p on.
StreamBit(d, p, i) == (d[p + 1 + (i \div 8)] \div 2^(7 - (i % 8))) % 2

\* The unsigned integer whose binary digits are the next n bits of d.
NextBits(d, p, n) ==
  [j \in 1..32 |-> IF j > 32 - n THEN StreamBit(d, p, j - (32 - n) - 1) ELSE 0]

\* w with the order of its k low bytes reversed.
LowBytesReversed(w, k) ==
  [j \in 1..32 |->
     LET q == 32 - j
     IN IF (q \div 8) < k
        THEN w[32 - (8 * (k - 1 - (q \div 8)) + (q % 8))]
        ELSE w[j]]

---------------------------------------------------------------------------
(* SpecPack: on an empty buffer, up to MaxWrites calls write.bits(v, n)    *)
(* with n <= 8, then seek(0), then the same widths read back in order.     *)

MaxWrites == 3

PackWidths == {2, 4, 5, 8}
PackValues(n) == {And(w, MaskWord(n)) : w \in {MaskWord(8), ToWord(150), ToWord(1)}}

InitPack == \E endian \in Endians : Construct(<<>>, endian)

PK_write ==
  /\ last.op \in {"new", "write.bits"}
  /\ Len(CallsOf("write.bits")) < MaxWrites
  /\ \E n \in PackWidths : \E v \in PackValues(n) : Call_write_bits(v, n) /\ Rec
PK_seek == last.op = "write.bits" /\ Call_seek(0) /\ Rec
PK_read ==
  /\ last.op \in {"seek", "read.bits"}
  /\ LET i == Len(CallsOf("read.bits")) + 1
         ws == CallsOf("write.bits")
     IN i <= Len(ws) /\ Call_read_bits(ws[i].call.args[2]) /\ Rec

NextPack == PK_write \/ PK_seek \/ PK_read

SpecPack == InitPack /\ [][NextPack]_vars

\* The n low bits of w, most significant first.
BitsOf(w, n) == [j \in 1..n |-> w[WordBits - n + j]]

RECURSIVE PackedBits(_)
\* The bits of the written fields, in writing order.
PackedBits(ws) ==
  IF ws = <<>> THEN <<>>
  ELSE BitsOf(Head(ws).call.args[1], Head(ws).call.args[2]) \o PackedBits(Tail(ws))

RECURSIVE BitsToInt(_)
BitsToInt(bits) ==
  IF bits = <<>> THEN 0
  ELSE 2 * BitsToInt(SubSeq(bits, 1, Len(bits) - 1)) + bits[Len(bits)]

\* Byte i (from 1) of a bit string cut into bytes, the last one zero-padded.
PackedByte(bits, i) ==
  BitsToInt([j \in 1..ByteBits |->
               IF 8 * (i - 1) + j <= Len(bits) THEN bits[8 * (i - 1) + j] ELSE 0])

\* C11: after write.bits(v_i, n_i), n_i <= 8, on an empty buffer and
\* seek(0), in either byte order, data holds the n_i-bit fields concatenated
\* most significant bit first and zero-padded to a whole byte (bytes of
\* capacity beyond that are zero), whatever the byte order, and reading the
\* same widths in the same order returns the v_i.
C11_BitPacking ==
  CallsOf("seek") # <<>> =>
    LET ws == CallsOf("write.bits")
        rs == CallsOf("read.bits")
        bits == PackedBits(ws)
        nb == CeilDiv8(Len(bits))
    IN /\ Len(data) >= nb
       /\ \A i \in 1..Len(data) :
            data[i] = IF i <= nb THEN PackedByte(bits, i) ELSE 0
       /\ \A i \in 1..Len(rs) :
            rs[i].call.err = Ok /\ rs[i].call.val = ws[i].call.args[1]

\* 0xf in 4 bits then 0x3 in 2 bits: the single byte 0b11111100, read back.
C11_Witness ==
  /\ Len(CallsOf("write.bits")) = 2 /\ Len(CallsOf("read.bits")) = 2
  /\ log[2].call.args = <<ToWord(15), 4>> /\ log[3].call.args = <<ToWord(3), 2>>
  /\ data = <<252>>
  /\ last.op = "read.bits" /\ last.val = ToWord(3) /\ ~isBigEndian

---------------------------------------------------------------------------
(* Signed integers: read.int and write.int.  A JavaScript number outside   *)
(* the 32-bit operators is a Num: hi * 2^16 + lo with 0 <= lo < 2^16.      *)

HalfBits == WordBits \div 2

\* ToInt32 of an integer in -2^31 .. 2^31 - 1: its two's-complement Word.
Int32Word(v) ==
  [j \in 1..WordBits |->
     IF j = 1 THEN (IF v < 0 THEN 1 ELSE 0) ELSE (v \div 2^(WordBits - j)) % 2]

WordOfHalves(hi, lo) ==
  [j \in 1..WordBits |->
     IF j <= HalfBits THEN (hi \div 2^(HalfBits - j)) % 2
     ELSE (lo \div 2^(WordBits - j)) % 2]

HighHalf(w) == BitsValue(Shr(w, HalfBits), HalfBits)
LowHalf(w) == BitsValue(w, HalfBits)

\* a + b as the 32-bit operators see it (modulo 2^32).
WordAdd(a, b) ==
  LET lo == LowHalf(a) + LowHalf(b)
      hi == HighHalf(a) + HighHalf(b) + (lo \div 2^HalfBits)
  IN WordOfHalves(hi % 2^HalfBits, lo % 2^HalfBits)

NumOfInt(v) == [hi |-> v \div 2^HalfBits, lo |-> v % 2^HalfBits]
\* The number a Word is after >>> 0 (unsigned).
NumOfWord(w) == [hi |-> HighHalf(w), lo |-> LowHalf(w)]
\* The number a Word is as the result of << (signed).
NumOfInt32(w) ==
  [hi |-> HighHalf(w) - (IF w[1] = 1 THEN 2^HalfBits ELSE 0), lo |-> LowHalf(w)]
NumSub(a, b) ==
  IF a.lo < b.lo
  THEN [hi |-> a.hi - b.hi - 1, lo |-> a.lo - b.lo + 2^HalfBits]
  ELSE [hi |-> a.hi - b.hi, lo |-> a.lo - b.lo]

\* read.int: value & signBit ? value - (1 << bitCount) : value
read_int(b, bitCount) ==
  LET r == readBits(b, bitCount)
      signBit == Shl(ToWord(1), bitCount - 1)
  IN IF r.err # Ok THEN r
     ELSE [r EXCEPT !.val =
             IF And(r.val, signBit) # ToWord(0)
             THEN NumSub(NumOfWord(r.val), NumOfInt32(Shl(ToWord(1), bitCount)))
             ELSE NumOfWord(r.val)]

\* write.int: if (value < 0) value += 1 << bitCount.  #writeBits uses value
\* only through the 32-bit operators, so the sum is kept modulo 2^32.
write_int(b, value, bitCount) ==
  writeBits(b,
            IF value < 0
            THEN WordAdd(Int32Word(value), Shl(ToWord(1), bitCount))
            ELSE Int32Word(value),
            bitCount)

Call_read_int(n) == Call("read.int", <<n>>, read_int(Buf, n))
Call_write_int(v, n) == Call("write.int", <<v, n>>, write_int(Buf, v, n))

---------------------------------------------------------------------------
(* SpecInt: on an empty buffer, write.int(v, n); seek(0); read.int(n).     *)

\* 2^(n-1) - 1 and -2^(n-1), computed without leaving 32 bits.
MaxInt(n) == IF n = 1 THEN 0 ELSE (2^(n - 2) - 1) + 2^(n - 2)
MinInt(n) == -MaxInt(n) - 1
IntValues(n) ==
  {v \in {MinInt(n), MinInt(n) + 1, -42, -1, 0, 1, 42, MaxInt(n)} :
     MinInt(n) <= v /\ v <= MaxInt(n)}

InitInt == \E endian \in Endians : Construct(<<>>, endian)

SI_write ==
  nops = 0 /\ \E n \in 1..WordBits : \E v \in IntValues(n) :
                 Call_write_int(v, n) /\ Rec
SI_seek == nops = 1 /\ Call_seek(0) /\ Rec
SI_read == nops = 2 /\ Call_read_int(log[2].call.args[2]) /\ Rec

NextInt == SI_write \/ SI_seek \/ SI_read

SpecInt == InitInt /\ [][NextInt]_vars

\* C12: in big-endian mode, for every n in 1..32 and every v with
\* -2^(n-1) <= v < 2^(n-1), write.int(v, n); seek(0); read.int(n) returns v.
C12_SignedRoundTrip ==
  (nops = 3 /\ isBigEndian) =>
    (last.err = Ok /\ last.val = NumOfInt(log[2].call.args[1]))

---------------------------------------------------------------------------
(* SpecBytes: up to ByteOps calls of seek, write.bytes, read.bytes,        *)
(* read.bits(3) and alignToByte() in any order.                            *)

ByteOps == 4

BytesContents == {<<>>, <<1, 2, 3>>}

InitBytes == \E contents \in BytesContents : Construct(contents, "big")

BY_seek == nops < ByteOps /\ \E pos \in 0..2 : Call_seek(pos) /\ Rec
BY_write_bytes == nops < ByteOps /\ \E bs \in MixedBytes : Call_write_bytes(bs) /\ Rec
BY_read_bytes == nops < ByteOps /\ \E k \in 1..2 : Call_read_bytes(k) /\ Rec
BY_read_bits == nops < ByteOps /\ Call_read_bits(3) /\ Rec
BY_alignToByte == nops < ByteOps /\ Call_alignToByte(FALSE) /\ Rec

NextBytes == BY_seek \/ BY_write_bytes \/ BY_read_bytes \/ BY_read_bits \/ BY_alignToByte

SpecBytes == InitBytes /\ [][NextBytes]_vars

\* d[p .. p + k), indices from 0
Slice(d, p, k) == SubSeq(d, p + 1, p + k)

\* C13: from a byte-aligned cursor at p, write.bytes(B) sets
\* data[p .. p+len(B)) to B, leaves the bytes below p unchanged and ends with
\* position == p + len(B) and pendingBits == 0; read.bytes(k) at an aligned
\* p with p + k <= length(data) returns data[p .. p+k) and ends with
\* position == p + k; write.bytes(B); seek(p); read.bytes(len(B)) returns B.
C13_AlignedBytes ==
  \A i \in 2..Len(log) :
    LET pre == log[i - 1].post
        c == log[i].call
        post == log[i].post
        p == pre.position
    IN pre.remainingBits = 0 =>
         /\ c.op = "write.bytes" =>
              LET B == c.args[1]
              IN /\ c.err = Ok
                 /\ Len(post.data) >= p + Len(B)
                 /\ Slice(post.data, p, Len(B)) = B
                 /\ \A j \in 1..Min(p, Len(pre.data)) : post.data[j] = pre.data[j]
                 /\ post.position = p + Len(B)
                 /\ post.remainingBits = 0
                 /\ (i + 2 <= Len(log)
                       /\ log[i + 1].call.op = "seek" /\ log[i + 1].call.args[1] = p
                       /\ log[i + 2].call.op = "read.bytes"
                       /\ log[i + 2].call.args[1] = Len(B))
                    => (log[i + 2].call.err = Ok /\ log[i + 2].call.val = B)
         /\ (c.op = "read.bytes" /\ p + c.args[1] <= Len(pre.data)) =>
              /\ c.err = Ok
              /\ c.val = Slice(pre.data, p, c.args[1])
              /\ post.position = p + c.args[1]

\* "Hi" written at position 0 of an empty buffer and read back after seek(0).
C13_Witness ==
  /\ Len(log) = 4
  /\ log[2].call.op = "write.bytes" /\ log[2].call.args[1] = <<72, 105>>
  /\ log[2].post.data = <<72, 105>>
  /\ log[3].call.op = "seek" /\ log[3].call.args[1] = 0
  /\ last.op = "read.bytes" /\ last.val = <<72, 105>> /\ position = 2

---------------------------------------------------------------------------
(* Strings.  A string is a sequence of code points; TextEncoder and        *)
(* TextDecoder("utf-8") are the platform's UTF-8 codec.                    *)

ReplacementChar == 65533
ByteOrderMark == 65279

\* The UTF-8 bytes of one code point below 2^16 (no surrogates).
EncodeChar(c) ==
  IF c < 128 THEN <<c>>
  ELSE IF c < 2048 THEN <<192 + (c \div 64), 128 + (c % 64)>>
  ELSE <<224 + (c \div 4096), 128 + ((c \div 64) % 64), 128 + (c % 64)>>

RECURSIVE utf8Encode(_)
\* new TextEncoder().encode(str)
utf8Encode(str) ==
  IF str = <<>> THEN <<>> ELSE EncodeChar(Head(str)) \o utf8Encode(Tail(str))

\* Continuation bytes a lead byte asks for (0: not a lead byte).
BytesNeeded(lead) ==
  IF lead >= 194 /\ lead <= 223 THEN 1
  ELSE IF lead >= 224 /\ lead <= 239 THEN 2
  ELSE IF lead >= 240 /\ lead <= 244 THEN 3
  ELSE 0

\* The range the first continuation byte must lie in.
LowerBoundary(lead) == IF lead = 224 THEN 160 ELSE IF lead = 240 THEN 144 ELSE 128
UpperBoundary(lead) == IF lead = 237 THEN 159 ELSE IF lead = 244 THEN 143 ELSE 191

RECURSIVE GoodContinuations(_, _, _, _)
\* How many of the next `needed` bytes continue the sequence.
GoodContinuations(bytes, needed, lo, hi) ==
  IF needed = 0 \/ bytes = <<>> THEN 0
  ELSE IF Head(bytes) < lo \/ Head(bytes) > hi THEN 0
  ELSE 1 + GoodContinuations(Tail(bytes), needed - 1, 128, 191)

RECURSIVE DecodeFrom(_)
\* The decoder proper: a malformed or cut-off sequence gives one U+FFFD.
DecodeFrom(bytes) ==
  IF bytes = <<>> THEN <<>>
  ELSE
    LET lead == Head(bytes)
        rest == Tail(bytes)
        needed == BytesNeeded(lead)
        good == GoodContinuations(rest, needed, LowerBoundary(lead), UpperBoundary(lead))
        after == SubSeq(rest, good + 1, Len(rest))
        cp == CASE needed = 1 -> (lead - 192) * 64 + (rest[1] - 128)
                [] needed = 2 -> (lead - 224) * 4096 + (rest[1] - 128) * 64
                                   + (rest[2] - 128)
                [] OTHER -> (lead - 240) * 262144 + (rest[1] - 128) * 4096
                              + (rest[2] - 128) * 64 + (rest[3] - 128)
    IN IF lead < 128 THEN <<lead>> \o DecodeFrom(rest)
       ELSE IF needed = 0 \/ good < needed
       THEN <<ReplacementChar>> \o DecodeFrom(after)
       ELSE <<cp>> \o DecodeFrom(after)

\* new TextDecoder("utf-8").decode(bytes): ignoreBOM is false by default,
\* so a leading byte order mark is removed from the result.
utf8Decode(bytes) ==
  LET s == DecodeFrom(bytes)
  IN IF s # <<>> /\ Head(s) = ByteOrderMark THEN Tail(s) ELSE s

RECURSIVE cStringLoop(_, _)
cStringLoop(b, bytes) ==
  LET r == readBits(b, ByteBits)
  IN IF r.err # Ok THEN [b |-> r.b, val |-> NoVal, err |-> r.err]
     ELSE LET byte == BitsValue(r.val, ByteBits)
          IN IF byte = 0
             THEN [b |-> r.b, val |-> utf8Decode(bytes), err |-> Ok]
             ELSE cStringLoop(r.b, Append(bytes, byte))

read_cString(b) == cStringLoop(b, <<>>)

write_cString(b, str) == write_bytes(b, utf8Encode(str \o <<0>>))

Call_read_cString == Call("read.cString", <<>>, read_cString(Buf))
Call_write_cString(str) == Call("write.cString", <<str>>, write_cString(Buf, str))

---------------------------------------------------------------------------
(* SpecCString: up to StringOps calls of write.cString, seek, read.cString *)
(* and read.bits(3) in any order.                                          *)

StringOps == 3
MaxChars == 2

Chars == {72, 105, 233, ByteOrderMark}
Strings == UNION {[1..n -> Chars] : n \in 0..MaxChars}
StringContents == {<<>>, <<72, 105>>, <<72, 0, 105, 0>>, <<195, 0>>}

InitCString == \E contents \in StringContents : Construct(contents, "big")

CS_write == nops < StringOps /\ \E str \in Strings : Call_write_cString(str) /\ Rec
CS_seek == nops < StringOps /\ \E pos \in 0..1 : Call_seek(pos) /\ Rec
CS_read == nops < StringOps /\ Call_read_cString /\ Rec
CS_read_bits == nops < StringOps /\ Call_read_bits(3) /\ Rec

NextCString == CS_write \/ CS_seek \/ CS_read \/ CS_read_bits

SpecCString == InitCString /\ [][NextCString]_vars

\* C14: for s without zero bytes, write.cString(s) on a fresh cursor, then
\* seek(0), then read.cString() returns s.
C14_CStringRoundTrip ==
  (/\ Len(log) = 4
   /\ log[2].call.op = "write.cString" /\ log[1].post.position = 0
   /\ log[3].call.op = "seek" /\ log[3].call.args[1] = 0
   /\ last.op = "read.cString")
  => (last.err = Ok /\ last.val = log[2].call.args[1])

---------------------------------------------------------------------------
(* Further properties of single calls, over Spec.                          *)

\* C15: getBuffer() leaves position unchanged and returns exactly
\* data[0 .. position): its length equals position.
C15_Extraction ==
  [][CallOf({"getBuffer"})
       => (/\ position' = position
           /\ Len(last'.val) = position'
           /\ last'.val = SubSeq(data', 1, position'))]_vars

---------------------------------------------------------------------------
(* SpecClear: up to ClearOps calls of mark, reset, clear, isComplete,      *)
(* read.bits(3), write.bytes, seek and peek.bits in any order.             *)

ClearOps == 4

InitClear == \E contents \in BytesContents : Construct(contents, "big")

CL_mark == nops < ClearOps /\ \E name \in Names : Call_mark(name) /\ Rec
CL_reset == nops < ClearOps /\ \E name \in Names : Call_reset(name) /\ Rec
CL_clear == nops < ClearOps /\ Call_clear /\ Rec
CL_isComplete == nops < ClearOps /\ Call_isComplete /\ Rec
CL_read_bits == nops < ClearOps /\ Call_read_bits(3) /\ Rec
CL_write_bytes == nops < ClearOps /\ Call_write_bytes(<<72, 105>>) /\ Rec
CL_seek == nops < ClearOps /\ Call_seek(2) /\ Rec
CL_peek_bits == nops < ClearOps /\ Call_peek_bits(3) /\ Rec

NextClear ==
  \/ CL_mark \/ CL_reset \/ CL_clear \/ CL_isComplete
  \/ CL_read_bits \/ CL_write_bytes \/ CL_seek \/ CL_peek_bits

SpecClear == InitClear /\ [][NextClear]_vars

\* C16: from any state clear() leaves length(data) == 0, position == 0,
\* pendingBits == 0 and no marks; an isComplete() right after it is true and
\* a reset(name) right after it fails with not-found, for every name.
C16_Clear ==
  \A i \in 2..Len(log) :
    log[i].call.op = "clear" =>
      /\ log[i].post.data = <<>>
      /\ log[i].post.position = 0
      /\ log[i].post.remainingBits = 0
      /\ DOMAIN log[i].post.marks = {}
      /\ i < Len(log) =>
           /\ log[i + 1].call.op = "isComplete" => log[i + 1].call.val = TRUE
           /\ log[i + 1].call.op = "reset" => log[i + 1].call.err = ErrMark

\* mark("test"), a partial read, clear(), then reset("test") is refused.
C16_Witness ==
  /\ Len(log) = 5
  /\ log[2].call.op = "mark" /\ log[2].call.args[1] = "test"
  /\ log[3].call.op = "read.bits" /\ log[3].post.remainingBits = 5
  /\ log[4].call.op = "clear"
  /\ last.op = "reset" /\ last.args[1] = "test" /\ last.err = ErrMark

\* C17: seek(pos) with pos < 0, and skip(n) with position + n < 0, fail with
\* the invalid-argument error and leave data, position, pendingBits,
\* pendingByte and marks unchanged.
C17_NegativeSeek ==
  [][((CallOf({"seek"}) /\ last'.args[1] < 0)
        \/ (CallOf({"skip"}) /\ position + last'.args[1] < 0))
       => (/\ last'.err = ErrSeek
           /\ UNCHANGED <<data, position, remainingBits, currentByte, marks>>)]_vars

\* A refused skip(-1) at position 0 while a partly written byte is pending.
C17_Witness ==
  /\ last.op = "skip" /\ last.args[1] = -1 /\ last.err = ErrSeek
  /\ position = 0 /\ remainingBits = 5 /\ currentByte # 0

\* C18: seek(pos) with pos >= 0 ends with position == pos and
\* pendingBits == 0; skip(n) with position + n >= 0 ends with position equal
\* to the position before the call plus n and pendingBits == 0.
C18_SeekSkip ==
  [][/\ (CallOf({"seek"}) /\ last'.args[1] >= 0)
          => (last'.err = Ok /\ position' = last'.args[1] /\ remainingBits' = 0)
     /\ (CallOf({"skip"}) /\ position + last'.args[1] >= 0)
          => (/\ last'.err = Ok
              /\ position' = position + last'.args[1]
              /\ remainingBits' = 0)]_vars

\* skip(1) from position 3 of a buffer grown by seek(3).
C18_Witness ==
  /\ last.op = "skip" /\ last.args[1] = 1 /\ last.err = Ok
  /\ position = 4 /\ remainingBits = 0 /\ Len(data) >= 4

\* C19 as stated: reset(name) for a name with no snapshot fails with
\* not-found, the partial byte having been aligned first: pendingBits == 0
\* after the failed reset.
C19_ResetUnknownAligned ==
  [][(CallOf({"reset"}) /\ ~MapHas(marks, last'.args[1]))
       => (last'.err = ErrMark /\ remainingBits' = 0)]_vars

\* C19 amended: reset(name) for a name with no snapshot fails with not-found
\* before anything is aligned: data, position, pendingBits, pendingByte and
\* marks are left as they were.
C19_ResetUnknownUnchanged ==
  [][(CallOf({"reset"}) /\ ~MapHas(marks, last'.args[1]))
       => (/\ last'.err = ErrMark
           /\ UNCHANGED <<data, position, remainingBits, currentByte, marks>>)]_vars

\* A refused reset that leaves five pending bits in place.
C19_Witness ==
  /\ last.op = "reset" /\ last.err = ErrMark
  /\ remainingBits = 5 /\ position = 1 /\ marks = EmptyMap

---------------------------------------------------------------------------
(* SpecSwap: swapEndianness applied once to a value of k bytes.            *)

SwapBytes == {0, 18, 52, 86, 120, 128, 255}

\* Mutant: the result of | is returned as it is, a signed 32-bit integer.
ToUint32_Signed(w) == NumOfInt32(w)

\* x >>> 0 as a number
ToUint32(w) == NumOfWord(w)

InitSwap == Construct(<<>>, "big")

SW_swap ==
  /\ nops = 0
  /\ \E k \in 2..4 : \E b3, b2, b1, b0 \in SwapBytes :
       /\ (k < 4 => b3 = 0) /\ (k < 3 => b2 = 0)
       /\ LET v == WordOfBytes(b3, b2, b1, b0)
          IN last' = [op |-> "swapEndianness", args |-> <<v, k>>,
                      val |-> ToUint32(swapEndianness(v, k)), err |-> Ok]
       /\ UNCHANGED <<data, position, currentByte, remainingBits, isBigEndian, marks>>
       /\ Rec

\* ToInt32 of a number: the Word the 32-bit operators see.
ToInt32(n) == WordOfHalves(n.hi % 2^HalfBits, n.lo)

\* swapEndianness applied to the result of the first application.
SW_swap_again ==
  /\ nops = 1
  /\ LET v == ToInt32(last.val)
         k == last.args[2]
     IN last' = [op |-> "swapEndianness", args |-> <<v, k>>,
                 val |-> ToUint32(swapEndianness(v, k)), err |-> Ok]
  /\ UNCHANGED <<data, position, currentByte, remainingBits, isBigEndian, marks>>
  /\ Rec

NextSwap == SW_swap \/ SW_swap_again

SpecSwap == InitSwap /\ [][NextSwap]_vars

\* C20: for k in {2, 3, 4} and 0 <= v < 2^(8k), swapEndianness(v, k) is the
\* integer whose k bytes are those of v in reverse order, a non-negative
\* integer below 2^(8k).
C20_SwapResult ==
  last.op = "swapEndianness" =>
    LET v == last.args[1]
        k == last.args[2]
    IN /\ last.val = NumOfWord(LowBytesReversed(v, k))
       /\ last.val.hi >= 0
       /\ last.val.hi < 2^(8 * k - HalfBits)

\* swapEndianness(0xffffffff, 4) is 0xffffffff, not -1.
C20_Witness ==
  /\ last.op = "swapEndianness"
  /\ last.args = <<WordOfBytes(255, 255, 255, 255), 4>>
  /\ last.val = [hi |-> 65535, lo |-> 65535]

---------------------------------------------------------------------------
(* SpecSeek: optionally a partial read, then seek(pos), then isComplete()  *)
(* or read.bits(8).                                                        *)

SeekContents == {<<>>, <<170>>, <<171, 205, 239>>}

InitSeek == \E contents \in SeekContents : Construct(contents, "big")

SK_read_bits == nops = 0 /\ Call_read_bits(3) /\ Rec
SK_seek == nops <= 1 /\ last.op \in {"new", "read.bits"} /\ \E pos \in 0..7 : Call_seek(pos) /\ Rec
SK_isComplete == last.op = "seek" /\ Call_isComplete /\ Rec
SK_read_byte == last.op = "seek" /\ Call_read_bits(ByteBits) /\ Rec

NextSeek == SK_read_bits \/ SK_seek \/ SK_isComplete \/ SK_read_byte

SpecSeek == InitSeek /\ [][NextSeek]_vars

\* C21: seek(pos) with pos > length(data) grows data to exactly pos bytes,
\* keeps every existing byte and fills the new ones with zero; right after
\* it position == length(data), isComplete() is true and read.bits(8) fails
\* with buffer underrun.
C21_ExactGrowth ==
  \A i \in 2..Len(log) :
    LET pre == log[i - 1].post
        c == log[i].call
        post == log[i].post
    IN (c.op = "seek" /\ c.args[1] > Len(pre.data)) =>
         /\ Len(post.data) = c.args[1]
         /\ \A j \in 1..Len(post.data) :
              post.data[j] = IF j <= Len(pre.data) THEN pre.data[j] ELSE 0
         /\ post.position = Len(post.data)
         /\ i < Len(log) =>
              /\ log[i + 1].call.op = "isComplete" => log[i + 1].call.val = TRUE
              /\ log[i + 1].call.op = "read.bits" => log[i + 1].call.err = ErrUnderrun

---------------------------------------------------------------------------
(* Invariants of the cursor and of the storage, over Spec.                 *)

\* C22: after every public operation, whether it returns or fails,
\* 0 <= position <= length(data).
C22_PositionBound == position >= 0 /\ position <= Len(data)

\* C23: after every public operation, whether it returns or fails,
\* pendingBits is in 0..7.
C23_PendingBitsBound == remainingBits \in 0..(ByteBits - 1)

\* Twelve bits written: one byte committed, four bits of the next pending.
C23_Witness ==
  /\ last.op = "write.bits" /\ last.args[2] = 12 /\ last.err = Ok
  /\ remainingBits = 4 /\ nops = 3

---------------------------------------------------------------------------
(* Further properties over SpecSwap.                                       *)

\* C25: for k in {2, 3, 4} and 0 <= v < 2^(8k),
\* swapEndianness(swapEndianness(v, k), k) == v.
C25_SwapInvolution ==
  Len(log) = 3 => last.val = NumOfWord(log[2].call.args[1])

\* 0x123456 -> 0x563412 -> 0x123456
C25_Witness ==
  /\ Len(log) = 3
  /\ log[2].call.args = <<WordOfBytes(0, 18, 52, 86), 3>>
  /\ log[2].call.val = NumOfWord(WordOfBytes(0, 86, 52, 18))
  /\ last.val = NumOfWord(WordOfBytes(0, 18, 52, 86))

---------------------------------------------------------------------------
(* SpecStore: optionally seek(p), then write.bits(v, 8k) for k in 2..4.    *)

StoreBytes == {18, 52, 255}

InitStore ==
  \E contents \in BytesContents, endian \in Endians : Construct(contents, endian)

ST_seek == nops = 0 /\ \E pos \in 0..3 : Call_seek(pos) /\ Rec
ST_write ==
  /\ nops <= 1 /\ last.op \in {"new", "seek"}
  /\ \E k \in 2..4 : \E b3, b2, b1, b0 \in StoreBytes :
       /\ (k < 4 => b3 = 18) /\ (k < 3 => b2 = 18)
       /\ Call_write_bits(WordOfBytes(IF k < 4 THEN 0 ELSE b3,
                                      IF k < 3 THEN 0 ELSE b2, b1, b0),
                          ByteBits * k)
       /\ Rec

NextStore == ST_seek \/ ST_write

SpecStore == InitStore /\ [][NextStore]_vars

\* Byte i of w, byte 0 being the least significant.
ByteAt(w, i) ==
  LET top == WordBits - ByteBits * (i + 1)
  IN BitsToInt([j \in 1..ByteBits |-> w[top + j]])

\* C26: from a byte-aligned cursor at p, write.bits(v, 8k), k in {2, 3, 4},
\* stores the k bytes of v at data[p .. p+k), most significant byte first in
\* big-endian mode and least significant byte first in little-endian mode.
C26_StoredByteOrder ==
  last.op = "write.bits" =>
    LET pre == log[Len(log) - 1].post
        p == pre.position
        v == last.args[1]
        k == last.args[2] \div ByteBits
    IN pre.remainingBits = 0 =>
         /\ last.err = Ok
         /\ Len(data) >= p + k
         /\ \A i \in 0..(k - 1) :
              data[p + 1 + i] = IF isBigEndian THEN ByteAt(v, k - 1 - i)
                                ELSE ByteAt(v, i)

\* 0x1234 written little-endian at position 1 is stored as 0x34, 0x12.
C26_Witness ==
  /\ last.op = "write.bits" /\ last.args = <<WordOfBytes(0, 0, 18, 52), 16>>
  /\ ~isBigEndian /\ Len(log) = 3 /\ log[2].post.position = 1
  /\ data = <<1, 52, 18>>

---------------------------------------------------------------------------
(* Failed reads and failed peeks, over Spec.                               *)

\* read.bits(n) with n in 1..32 or read.bytes(k) with k >= 1
IsDataRead(c) ==
  \/ c.op = "read.bits" /\ c.args[1] \in 1..WordBits
  \/ c.op = "read.bytes" /\ c.args[1] >= 1

\* C27: when read.bits(n) or read.bytes(k) fails with buffer underrun,
\* nothing is rolled back: afterwards pendingBits == 0 and
\* position >= length(data); an isComplete() that follows is true and a
\* read that follows fails with underrun.
C27_FailedRead ==
  [][/\ (CallOf({"read.bits", "read.bytes"}) /\ last'.err = ErrUnderrun)
          => (/\ remainingBits' = 0
              /\ position' >= Len(data')
              /\ position' >= position)
     /\ (last.op \in {"read.bits", "read.bytes"} /\ last.err = ErrUnderrun)
          => /\ CallOf({"isComplete"}) => last'.val = TRUE
             /\ (IsCall /\ IsDataRead(last')) => last'.err = ErrUnderrun]_vars

\* read.bytes(2) with one byte left: the byte is consumed, then the underrun.
C27_Witness ==
  /\ last.op = "read.bytes" /\ last.args[1] = 2 /\ last.err = ErrUnderrun
  /\ data = <<171, 205, 239>> /\ position = 3 /\ remainingBits = 0 /\ nops = 2

\* C28: when peek.bits(n) or peek.bytes(k) fails, position, pendingBits and
\* pendingByte are the same as before the call.
C28_FailedPeek ==
  [][(CallOf({"peek.bits", "peek.bytes"}) /\ last'.err # Ok)
       => UNCHANGED <<position, remainingBits, currentByte>>]_vars

---------------------------------------------------------------------------
(* Further properties over SpecMark.                                       *)

\* C29: no peek creates, changes or removes a snapshot stored under a
\* caller-supplied name, and a reset(name) issued right after a peek
\* succeeds with the same snapshot, or fails with not-found, as it would
\* have before the peek.
C29_PeekKeepsMarks ==
  \A i \in 2..Len(log) : \A name \in Names :
    LET pre == log[i - 1].post
        post == log[i].post
    IN log[i].call.op = "peek.bits" =>
         /\ MapHas(post.marks, name) = MapHas(pre.marks, name)
         /\ MapHas(pre.marks, name) => post.marks[name] = pre.marks[name]
         /\ (i < Len(log) /\ log[i + 1].call.op = "reset"
               /\ log[i + 1].call.args[1] = name)
            => /\ log[i + 1].call.err = reset(pre, name).err
               /\ log[i + 1].call.err = Ok
                    => Snapshot(log[i + 1].post) = Snapshot(reset(pre, name).b)

\* mark(), a partial read, a peek, then reset() back to the mark.
C29_Witness ==
  /\ Len(log) = 5
  /\ log[2].call.op = "mark" /\ log[2].call.args[1] = "default"
  /\ log[3].call.op = "read.bits" /\ log[3].post.remainingBits = 5
  /\ log[4].call.op = "peek.bits" /\ log[4].call.err = Ok
  /\ MapHas(log[4].post.marks, kPeekMark)
  /\ last.op = "reset" /\ last.args[1] = "default" /\ last.err = Ok
  /\ position = 0 /\ remainingBits = 0

\* C30: mark(name) stores the current cursor under name, replacing an
\* earlier snapshot and leaving the snapshots under other names alone;
\* reset(name) leaves every snapshot in place; every later reset(name), until
\* name is marked again or the buffer cleared, returns position, pendingBits
\* and pendingByte to the snapshot of the most recent mark(name).
C30_MarksAreAMap ==
  \A i \in 2..Len(log) :
    LET pre == log[i - 1].post
        c == log[i].call
        post == log[i].post
    IN /\ c.op = "mark" =>
            /\ MapHas(post.marks, c.args[1])
            /\ post.marks[c.args[1]] = Snapshot(pre)
            /\ \A other \in DOMAIN pre.marks \ {c.args[1]} :
                 MapHas(post.marks, other) /\ post.marks[other] = pre.marks[other]
            /\ DOMAIN post.marks = DOMAIN pre.marks \cup {c.args[1]}
       /\ c.op = "reset" => post.marks = pre.marks
       /\ c.op = "mark" =>
            \A j \in (i + 1)..Len(log) :
              (MarkStands(i, j, c.args[1]) /\ log[j].call.op = "reset"
                 /\ log[j].call.args[1] = c.args[1])
              => (log[j].call.err = Ok /\ Snapshot(log[j].post) = Snapshot(pre))

\* mark("test"), reset("test"), a 12-bit read, and reset("test") once more.
C30_Witness ==
  /\ Len(log) = 5
  /\ log[2].call.op = "mark" /\ log[2].call.args[1] = "test"
  /\ log[3].call.op = "reset" /\ log[3].call.args[1] = "test"
  /\ log[4].call.op = "read.bits" /\ log[4].post.position = 2
  /\ last.op = "reset" /\ last.args[1] = "test" /\ last.err = Ok
  /\ position = 0 /\ remainingBits = 0 /\ MapHas(marks, "test")

---------------------------------------------------------------------------
(* SpecReadOnly: runs of at most ReadOnlyOps calls, none of which is meant *)
(* to store anything: read.*, peek.*, isComplete, mark, reset, and seek or *)
(* skip to a position inside the data.                                     *)

ReadOnlyOps == 3
ReadBitCounts == {3, 12}

RO_read_bits ==
  nops < ReadOnlyOps /\ \E n \in ReadBitCounts : Call_read_bits(n) /\ Rec
RO_read_bytes ==
  nops < ReadOnlyOps /\ \E k \in ByteCounts : Call_read_bytes(k) /\ Rec
RO_peek_bits ==
  nops < ReadOnlyOps /\ \E n \in ReadBitCounts : Call_peek_bits(n) /\ Rec
RO_peek_bytes ==
  nops < ReadOnlyOps /\ \E k \in ByteCounts : Call_peek_bytes(k) /\ Rec
RO_isComplete == nops < ReadOnlyOps /\ Call_isComplete /\ Rec
RO_mark == nops < ReadOnlyOps /\ \E name \in Names : Call_mark(name) /\ Rec
RO_reset == nops < ReadOnlyOps /\ \E name \in Names : Call_reset(name) /\ Rec
RO_seek ==
  nops < ReadOnlyOps /\ \E pos \in 0..Len(data) : Call_seek(pos) /\ Rec
RO_skip ==
  /\ nops < ReadOnlyOps
  /\ \E n \in SkipCounts :
       /\ position + n \in 0..Len(data)
       /\ Call_skip(n) /\ Rec

NextReadOnly ==
  \/ RO_read_bits
  \/ RO_read_bytes
  \/ RO_peek_bits
  \/ RO_peek_bytes
  \/ RO_isComplete
  \/ RO_mark
  \/ RO_reset
  \/ RO_seek
  \/ RO_skip

SpecReadOnly == Init /\ [][NextReadOnly]_vars

\* C31: no run made only of read.*, peek.*, isComplete, mark, reset and
\* seek/skip to positions <= length(data) changes the length of data or any
\* of its bytes, also when a byte is partially consumed at the time.
C31_ReadsDoNotWrite == data = log[1].post.data

---------------------------------------------------------------------------
(* SpecExtract: on an empty buffer, up to MaxWrites calls write.bits(v, n) *)
(* with n <= 8, then getBuffer().                                          *)

EX_getBuffer == last.op = "write.bits" /\ Call_getBuffer /\ Rec

NextExtract == PK_write \/ EX_getBuffer

SpecExtract == InitPack /\ [][NextExtract]_vars

\* C32: after write.bits calls on an empty buffer totalling T bits,
\* getBuffer() returns ceil(T/8) bytes: the written bits in write order,
\* zero-padded; a pending partial byte is included and overwrites no
\* committed byte.
C32_NoBitLost ==
  last.op = "getBuffer" =>
    LET bits == PackedBits(CallsOf("write.bits"))
        nb == CeilDiv8(Len(bits))
    IN /\ last.err = Ok
       /\ Len(last.val) = nb
       /\ \A i \in 1..nb : last.val[i] = PackedByte(bits, i)

---------------------------------------------------------------------------
(* SpecCursor: an optional seek(p) on a fresh buffer, then a run of at     *)
(* most CursorOps calls, all read.bits or all write.bits.                  *)

CursorOps == 3
CursorContents == {<<>>, <<171, 205, 239, 1, 2, 3>>}
CursorWidths == {1, 3, 8, 13, 32}

InitCursor ==
  \E contents \in CursorContents, endian \in Endians : Construct(contents, endian)

AC_seek == last.op = "new" /\ \E pos \in 0..2 : Call_seek(pos) /\ Rec
AC_read ==
  /\ last.op \in {"new", "seek", "read.bits"}
  /\ Len(CallsOf("read.bits")) < CursorOps
  /\ \E n \in CursorWidths : Call_read_bits(n) /\ Rec
AC_write ==
  /\ last.op \in {"new", "seek", "write.bits"}
  /\ Len(CallsOf("write.bits")) < CursorOps
  /\ \E n \in CursorWidths : Call_write_bits(MaskWord(n), n) /\ Rec

NextCursor == AC_seek \/ AC_read \/ AC_write

SpecCursor == InitCursor /\ [][NextCursor]_vars

\* The index in log of the call the run of bit operations starts after.
RunStart == IF Len(log) >= 2 /\ log[2].call.op = "seek" THEN 2 ELSE 1

RECURSIVE RunBits(_)
\* The bit counts of log[i..], added up.
RunBits(i) ==
  IF i > Len(log) THEN 0
  ELSE log[i].call.args[Len(log[i].call.args)] + RunBits(i + 1)

\* C33: from a byte-aligned cursor at position p, T bits read with
\* successful read.bits calls leave position == p + ceil(T/8), T bits
\* written with write.bits leave position == p + floor(T/8), and either way
\* pendingBits == (8 - (T mod 8)) mod 8.
C33_CursorAccounting ==
  LET s == RunStart
      p == log[s].post.position
      T == RunBits(s + 1)
  IN (Len(log) > s /\ \A i \in (s + 1)..Len(log) : log[i].call.err = Ok) =>
       /\ log[s].post.remainingBits = 0
       /\ remainingBits = (ByteBits - (T % ByteBits)) % ByteBits
       /\ last.op = "read.bits" => position = p + CeilDiv8(T)
       /\ last.op = "write.bits" => position = p + (T \div ByteBits)

\* seek(1), then 13 and 1 bits written: one byte committed, two bits pending.
C33_Witness ==
  /\ Len(log) = 4 /\ log[2].call.op = "seek" /\ log[2].call.args[1] = 1
  /\ log[3].call.op = "write.bits" /\ log[3].call.args[2] = 13
  /\ last.op = "write.bits" /\ last.args[2] = 1 /\ last.err = Ok
  /\ position = 2 /\ remainingBits = 2

===========================================================================
